---- MODULE Spec2Model ----
(***************************************************************************)
(* Model of preprocess_corpora/preprocessing/tok.py: the dispatcher        *)
(* tokenize_single, the four adapters and the two tree builders            *)
(* (nltk_tokenize and nlp_process).                                        *)
(*                                                                         *)
(* The element tree is a sequence of paragraphs; a paragraph is a record   *)
(* [id, s], a sentence a record [id, w], a word a record [id, text, ...].  *)
(* The id strings 's{}.{}'.format(i, j) and 'w{}.{}.{}'.format(i, j, k)    *)
(* are kept as the tuples <<i, j>> and <<i, j, k>> of the formatted        *)
(* numbers; str(i) is kept as i.                                           *)
(***************************************************************************)
EXTENDS Integers, Sequences, FiniteSets, TLC

VARIABLES
    tokenizer,      \* argument of tokenize_single
    language,       \* argument of tokenize_single
    file_in,        \* f.readlines(): the lines of the input file
    pc,             \* "call", "loop", "sent", "done", "error"
    error,          \* the exception that ended the call, or "none"
    builder,        \* "none", "nltk" or "nlp": the builder that is running
    stanza_unique,  \* parameter of nlp_process
    text,           \* the element tree under construction
    paragraph,      \* index in text of the element the variable paragraph holds
    sentence,       \* <<p, s>>: position of the element the variable sentence holds
    i,              \* paragraph counter
    j,              \* sentence counter
    start_new,      \* the merge safeguard's flag
    n,              \* number of lines taken from file_in
    doc,            \* the candidates the backend returned for the current line
    c,              \* number of candidates of doc already processed
    calls,          \* log of the backend's invocations: [line, doc]
    file_out,       \* the output file: NoFile, or what was written
    writes,         \* number of times the output file was written
    subprocess,     \* "none", or the exit status of the uplug command
    runs,           \* number of times a builder was started
    caught          \* "none", or the exception stanza_tokenize caught

vars == <<tokenizer, language, file_in, pc, error, builder, stanza_unique, text,
          paragraph, sentence, i, j, start_new, n, doc, c, calls, file_out,
          writes, subprocess, runs, caught>>

(***************************************************************************)
(* Bounds of the model.                                                    *)
(***************************************************************************)
MaxLines == 3     \* lines in the input file
MaxCands == 3     \* sentence candidates the backend returns for one line
MaxTok   == 2     \* tokens of one candidate
MaxWords == 4     \* tokens the backend returns over the whole file

(***************************************************************************)
(* core.constants: the backend names and the language mappings.            *)
(***************************************************************************)
UPLUG      == "uplug"
NLTK       == "nltk"
SPACY      == "spacy"
STANZA     == "stanza"
TREETAGGER == "treetagger"
UNKNOWN    == "other"      \* a tokenizer value that is none of the five

Tokenizers == {UPLUG, NLTK, SPACY, STANZA, TREETAGGER, UNKNOWN}
Languages  == {"en", "sv", "xx"}

NLTK_LANGUAGES  == [en |-> "english", sv |-> "swedish"]
SPACY_MODELS    == [en |-> "en_core_web_sm"]
StanzaLanguages == {"en"}         \* stanza.download accepts these
UplugLanguages  == {"en", "sv"}   \* uplug has a module pre/{language}/basic

DictGet(d, k) == IF k \in DOMAIN d THEN d[k] ELSE ""

(***************************************************************************)
(* Input lines and str.strip().                                            *)
(***************************************************************************)
WS == {" ", "\n"}
Lines == {<<"\n">>, <<" ", "\n">>, <<" ", "x", "\n">>}

RECURSIVE LStrip(_)
LStrip(s) == IF s # <<>> /\ Head(s) \in WS THEN LStrip(Tail(s)) ELSE s

RECURSIVE RStrip(_)
RStrip(s) ==
    IF s # <<>> /\ s[Len(s)] \in WS THEN RStrip(SubSeq(s, 1, Len(s) - 1)) ELSE s

strip_none(s) == s

strip(s) == RStrip(LStrip(s))

\* A line that is empty after trimming whitespace, stated without strip.
IsBlankLine(l) == \A k \in 1..Len(l) : l[k] \in WS

RECURSIVE NonBlank(_)
NonBlank(ls) ==
    IF ls = <<>> THEN 0
    ELSE (IF IsBlankLine(Head(ls)) THEN 0 ELSE 1) + NonBlank(Tail(ls))

Files == {f \in UNION {[1..m -> Lines] : m \in 0..MaxLines} : NonBlank(f) <= MaxWords}

(***************************************************************************)
(* What a backend returns for one line: a sequence of candidates, each a   *)
(* sequence of tokens.  sent_tokenize/word_tokenize give strings; the nlp  *)
(* pipelines give token records.                                           *)
(***************************************************************************)
Surfaces == {"a", "b"}
Token(s) == [text |-> s, tag |-> "T", lemma |-> s]

SeqsUpTo(S, m) == UNION {[1..k -> S] : k \in 1..m}

Min(a, b) == IF a <= b THEN a ELSE b

\* The sequences of at most m candidates over the tokens S, of at most MaxTok
\* tokens each and at most b tokens together (the empty sequence included).
RECURSIVE DocsWithin(_, _, _)
DocsWithin(S, b, m) ==
    IF m = 0 \/ b <= 0 THEN {<<>>}
    ELSE {<<>>} \cup
         UNION {{<<cand>> \o rest : rest \in DocsWithin(S, b - Len(cand), m - 1)} :
                    cand \in SeqsUpTo(S, Min(MaxTok, b))}

\* sent_tokenize and word_tokenize: one to MaxCands sentences of strings.
NltkDocs(b) == DocsWithin(Surfaces, b, MaxCands) \ {<<>>}

\* nlp(line).to_dict(): one to MaxCands sentences of token records.
NlpDocs(b) == DocsWithin({Token(s) : s \in Surfaces}, b, MaxCands) \ {<<>>}

RECURSIVE DocWords(_)
DocWords(d) == IF d = <<>> THEN 0 ELSE Len(Head(d)) + DocWords(Tail(d))

RECURSIVE CallWords(_)
CallWords(cs) == IF cs = <<>> THEN 0 ELSE DocWords(Head(cs).doc) + CallWords(Tail(cs))

\* Tokens still available to the backend for line n + 1 within MaxWords,
\* leaving one for every later non-blank line.
Budget ==
    MaxWords - CallWords(calls) - NonBlank(SubSeq(file_in, n + 2, Len(file_in)))

NoFile == "nofile"

(***************************************************************************)
(* Tree construction.                                                      *)
(***************************************************************************)
\* etree.SubElement(text, 'p'); paragraph.set('id', str(i))
NewP(id) == [id |-> id, s |-> <<>>]

\* etree.SubElement(paragraph, 's'); sentence.set('id', 's{}.{}'.format(i, j))
NewS(pi, sj) == [id |-> <<pi, sj>>, w |-> <<>>]

AddP(t, id) == Append(t, NewP(id))

AddS(t, p, pi, sj) == [t EXCEPT ![p].s = Append(@, NewS(pi, sj))]

\* The element SubElement returned is the last child of its parent.
LastP_stale(t) == IF Len(t) > 1 THEN Len(t) - 1 ELSE 1

LastP(t) == Len(t)

LastS_first(t, p) == <<p, 1>>

LastS(t, p) == <<p, Len(t[p].s)>>

\* for k, w in enumerate(words, start=1): the w elements of nltk_tokenize
NltkWords(pi, sj, words) ==
    [k \in 1..Len(words) |-> [id |-> <<pi, sj, k>>, text |-> words[k]]]

NlpWords_drop(pi, sj, sent, unique) ==
    [k \in 1..(Len(sent) - 1) |->
        [id |-> <<pi, sj, k>>, text |-> sent[k].text,
         tree |-> sent[k].tag, lem |-> sent[k].lemma]]

\* for k, token in enumerate(sent, start=1): the w elements of nlp_process;
\* both branches of stanza_unique read the same three values of the token.
NlpWords(pi, sj, sent, unique) ==
    [k \in 1..Len(sent) |->
        [id |-> <<pi, sj, k>>, text |-> sent[k].text,
         tree |-> sent[k].tag, lem |-> sent[k].lemma]]

AddW(t, ptr, ws) == [t EXCEPT ![ptr[1]].s[ptr[2]].w = @ \o ws]

StartNew_inverted(sent) == Len(sent) = 1

\* start_new = len(sent) != 1
StartNew(sent) == Len(sent) # 1

NextI_same(k) == k

\* i += 1
NextI(k) == k + 1

(***************************************************************************)
(* Initial state: tokenize_single is about to be called.                   *)
(***************************************************************************)
Init ==
    /\ tokenizer \in Tokenizers
    /\ language \in Languages
    /\ file_in \in Files
    /\ pc = "call"
    /\ error = "none"
    /\ builder = "none"
    /\ stanza_unique = FALSE
    /\ text = <<>>
    /\ paragraph = 0
    /\ sentence = <<0, 0>>
    /\ i = 0
    /\ j = 0
    /\ start_new = FALSE
    /\ n = 0
    /\ doc = <<>>
    /\ c = 0
    /\ calls = <<>>
    /\ file_out = NoFile
    /\ writes = 0
    /\ subprocess = "none"
    /\ runs = 0
    /\ caught = "none"

BuilderVars == <<text, paragraph, sentence, i, j, start_new, n, doc, c, calls>>
InputVars == <<tokenizer, language, file_in>>
AttemptVars == <<runs, caught>>

\* raise click.ClickException(...)
Raise(e) ==
    /\ pc' = "error"
    /\ error' = e
    /\ UNCHANGED <<InputVars, AttemptVars, builder, stanza_unique, BuilderVars, file_out,
                   writes, subprocess>>

\* The builders' common prologue: i = 1 (nltk_tokenize: i = j = 1), the text
\* element and its first paragraph; the locals of the call are fresh.
StartBuilder(b, unique, j0) ==
    /\ pc' = "loop"
    /\ builder' = b
    /\ stanza_unique' = unique
    /\ runs' = runs + 1
    /\ i' = 1
    /\ j' = j0
    /\ text' = AddP(<<>>, 1)
    /\ paragraph' = LastP(text')
    /\ sentence' = <<0, 0>>
    /\ start_new' = FALSE
    /\ n' = 0
    /\ doc' = <<>>
    /\ c' = 0
    /\ calls' = <<>>
    /\ UNCHANGED <<InputVars, error, file_out, writes, subprocess>>

\* An exception leaves the builder in the middle of the line loop: the line
\* was taken and the backend invoked, nothing was returned.
RaiseInLine(e) ==
    /\ pc' = "error"
    /\ error' = e
    /\ n' = n + 1
    /\ calls' = Append(calls, [line |-> strip(file_in[n + 1]), at |-> n + 1,
                               doc |-> <<>>])
    /\ UNCHANGED <<InputVars, AttemptVars, builder, stanza_unique, text,
                   paragraph, sentence, i, j, start_new, doc, c, file_out,
                   writes, subprocess>>

except_ImportError_raise == Raise("ImportError")

\* except ImportError: nlp = stanza.Pipeline(...);
\* nlp_process(nlp, file_in, file_out, stanza_unique=True)
except_ImportError ==
    /\ caught' = "ImportError"
    /\ StartBuilder("nlp", TRUE, 0)

\* What the backend may raise on a line.
BackendErrors == {"ImportError", "RuntimeError"}

(***************************************************************************)
(* tokenize_single and the adapters.                                       *)
(***************************************************************************)
ExitStatus == {0, 1}

uplug_tokenize_checked ==
    /\ pc = "call"
    /\ tokenizer = UPLUG
    /\ \E st \in ExitStatus :
        IF st = 0
        THEN /\ subprocess' = st
             /\ file_out' = "uplug output"
             /\ writes' = writes + 1
             /\ pc' = "done"
             /\ UNCHANGED <<InputVars, AttemptVars, error, builder,
                            stanza_unique, BuilderVars>>
        ELSE Raise("CalledProcessError")

\* tokenizer == UPLUG: the shell opens file_out for the redirection and runs
\* uplug; the exit status is dropped.
uplug_tokenize ==
    /\ pc = "call"
    /\ tokenizer = UPLUG
    /\ \E st \in ExitStatus :
        /\ subprocess' = st
        /\ file_out' = IF st = 0 THEN "uplug output" ELSE "empty"
    /\ writes' = writes + 1
    /\ pc' = "done"
    /\ UNCHANGED <<InputVars, AttemptVars, error, builder, stanza_unique, BuilderVars>>

NltkSupported_any(lang) == TRUE

\* punkt_language = NLTK_LANGUAGES.get(language); if not punkt_language: raise
NltkSupported(lang) == DictGet(NLTK_LANGUAGES, lang) # ""

\* spacy_model = SPACY_MODELS.get(language); if not spacy_model: raise
SpacySupported(lang) == DictGet(SPACY_MODELS, lang) # ""

\* stanza.download(language) does not raise ValueError
StanzaSupported(lang) == lang \in StanzaLanguages

nltk_tokenize ==
    /\ pc = "call"
    /\ tokenizer = NLTK
    /\ IF ~NltkSupported(language)
       THEN Raise("UnsupportedLanguage")
       ELSE StartBuilder("nltk", FALSE, 1) /\ UNCHANGED caught

\* spacy.load raises OSError when the model is not installed.
spacy_tokenize ==
    /\ pc = "call"
    /\ tokenizer = SPACY
    /\ IF ~SpacySupported(language)
       THEN Raise("UnsupportedLanguage")
       ELSE \E installed \in BOOLEAN :
                IF installed
                THEN StartBuilder("nlp", FALSE, 0) /\ UNCHANGED caught
                ELSE Raise("ResourceUnavailable")

\* spacy_stanza.load_pipeline raises ImportError or not; on ImportError the
\* native pipeline is used with stanza_unique=True.  The try block also holds
\* the call of nlp_process: see nlp_line_raises.
stanza_tokenize ==
    /\ pc = "call"
    /\ tokenizer = STANZA
    /\ IF ~StanzaSupported(language)
       THEN Raise("UnsupportedLanguage")
       ELSE \E import_error \in BOOLEAN :
                IF import_error
                THEN except_ImportError
                ELSE StartBuilder("nlp", FALSE, 0) /\ UNCHANGED caught

treetagger_tokenizes ==
    /\ pc = "call"
    /\ tokenizer = TREETAGGER
    /\ StartBuilder("nlp", FALSE, 0)
    /\ UNCHANGED caught

\* tokenizer == TREETAGGER: only the echo.
treetagger ==
    /\ pc = "call"
    /\ tokenizer = TREETAGGER
    /\ pc' = "done"
    /\ UNCHANGED <<InputVars, AttemptVars, error, builder, stanza_unique, BuilderVars,
                   file_out, writes, subprocess>>

no_branch_raises ==
    /\ pc = "call"
    /\ tokenizer \notin {UPLUG, NLTK, SPACY, STANZA, TREETAGGER}
    /\ Raise("ValueError")

\* No branch of the if/elif chain matches.
no_branch ==
    /\ pc = "call"
    /\ tokenizer \notin {UPLUG, NLTK, SPACY, STANZA, TREETAGGER}
    /\ pc' = "done"
    /\ UNCHANGED <<InputVars, AttemptVars, error, builder, stanza_unique, BuilderVars,
                   file_out, writes, subprocess>>

(***************************************************************************)
(* nltk_tokenize: the loop over the lines and over the sentences of a line.*)
(***************************************************************************)
nltk_line ==
    /\ pc = "loop"
    /\ builder = "nltk"
    /\ n < Len(file_in)
    /\ n' = n + 1
    /\ LET line == strip(file_in[n + 1]) IN
        IF line # <<>>
        THEN /\ \E d \in NltkDocs(Budget) :
                    /\ doc' = d
                    /\ calls' = Append(calls, [line |-> line, at |-> n + 1, doc |-> d])
             /\ c' = 0
             /\ pc' = "sent"
             /\ UNCHANGED <<text, paragraph, i, j>>
        ELSE /\ i' = NextI(i)
             /\ text' = AddP(text, i')
             /\ paragraph' = LastP(text')
             /\ j' = 1
             /\ UNCHANGED <<pc, doc, c, calls>>
    /\ UNCHANGED <<InputVars, AttemptVars, error, builder, stanza_unique, sentence, start_new,
                   file_out, writes, subprocess>>

\* sent_tokenize or word_tokenize raises on a line: nothing catches it.
nltk_line_raises ==
    /\ pc = "loop"
    /\ builder = "nltk"
    /\ n < Len(file_in)
    /\ strip(file_in[n + 1]) # <<>>
    /\ \E e \in BackendErrors : RaiseInLine(e)

\* One iteration of "for s in sentences"; the j += 1 that follows the loop is
\* taken with the last iteration.
nltk_sentence ==
    /\ pc = "sent"
    /\ builder = "nltk"
    /\ c < Len(doc)
    /\ LET text1 == AddS(text, paragraph, i, j)
           ptr   == LastS(text1, paragraph)
       IN /\ sentence' = ptr
          /\ text' = AddW(text1, ptr, NltkWords(i, j, doc[c + 1]))
    /\ c' = c + 1
    /\ IF c + 1 = Len(doc)
       THEN pc' = "loop" /\ j' = j + 1
       ELSE pc' = "sent" /\ j' = j
    /\ UNCHANGED <<InputVars, AttemptVars, error, builder, stanza_unique, paragraph, i,
                   start_new, n, doc, calls, file_out, writes, subprocess>>

(***************************************************************************)
(* nlp_process: the loop over the lines and over doc.to_dict().            *)
(***************************************************************************)
nlp_line ==
    /\ pc = "loop"
    /\ builder = "nlp"
    /\ n < Len(file_in)
    /\ n' = n + 1
    /\ LET line == strip(file_in[n + 1]) IN
        IF line # <<>>
        THEN /\ \E d \in NlpDocs(Budget) :
                    /\ doc' = d
                    /\ calls' = Append(calls, [line |-> line, at |-> n + 1, doc |-> d])
             /\ c' = 0
             /\ start_new' = TRUE
             /\ j' = 0
             /\ pc' = "sent"
             /\ UNCHANGED <<text, paragraph, i>>
        ELSE /\ i' = NextI(i)
             /\ text' = AddP(text, i')
             /\ paragraph' = LastP(text')
             /\ UNCHANGED <<pc, doc, c, calls, start_new, j>>
    /\ UNCHANGED <<InputVars, AttemptVars, error, builder, stanza_unique, sentence,
                   file_out, writes, subprocess>>

\* nlp(line) raises.  Called from the try block of stanza_tokenize (the
\* combined pipeline), an ImportError is caught by its except clause; every
\* other exception, and every exception of the other callers, propagates.
InTry == tokenizer = STANZA /\ ~stanza_unique

nlp_line_raises ==
    /\ pc = "loop"
    /\ builder = "nlp"
    /\ n < Len(file_in)
    /\ strip(file_in[n + 1]) # <<>>
    /\ \E e \in BackendErrors :
            IF InTry /\ e = "ImportError"
            THEN except_ImportError
            ELSE RaiseInLine(e)

\* One iteration of "for sent in doc.to_dict()".
nlp_sent ==
    /\ pc = "sent"
    /\ builder = "nlp"
    /\ c < Len(doc)
    /\ LET sent  == doc[c + 1]
           j1    == IF start_new THEN j + 1 ELSE j
           text1 == IF start_new THEN AddS(text, paragraph, i, j1) ELSE text
           ptr   == IF start_new THEN LastS(text1, paragraph) ELSE sentence
       IN /\ j' = j1
          /\ sentence' = ptr
          /\ text' = AddW(text1, ptr, NlpWords(i, j1, sent, stanza_unique))
          /\ start_new' = StartNew(sent)
    /\ c' = c + 1
    /\ pc' = IF c + 1 = Len(doc) THEN "loop" ELSE "sent"
    /\ UNCHANGED <<InputVars, AttemptVars, error, builder, stanza_unique, paragraph, i, n,
                   doc, calls, file_out, writes, subprocess>>

\* tree.write(file_out, ...), after the last line.
write ==
    /\ pc = "loop"
    /\ n = Len(file_in)
    /\ file_out' = text
    /\ writes' = writes + 1
    /\ pc' = "done"
    /\ UNCHANGED <<InputVars, AttemptVars, error, builder, stanza_unique, BuilderVars,
                   subprocess>>

Next ==
    \/ uplug_tokenize
    \/ nltk_tokenize
    \/ spacy_tokenize
    \/ stanza_tokenize
    \/ treetagger
    \/ no_branch
    \/ nltk_line
    \/ nltk_line_raises
    \/ nltk_sentence
    \/ nlp_line
    \/ nlp_line_raises
    \/ nlp_sent
    \/ write

Spec == Init /\ [][Next]_vars

(***************************************************************************)
(* Reading the tree.                                                       *)
(***************************************************************************)
RECURSIVE Concat(_)
Concat(ss) == IF ss = <<>> THEN <<>> ELSE Head(ss) \o Concat(Tail(ss))

\* The surface forms of a sequence of w elements.
Texts(ws) == [k \in 1..Len(ws) |-> ws[k].text]

\* The surface forms of a tree in document order.
TreeTexts(t) ==
    Concat([p \in 1..Len(t) |->
        Concat([q \in 1..Len(t[p].s) |-> Texts(t[p].s[q].w)])])

\* Number of s elements of a tree.
RECURSIVE NumS(_)
NumS(t) == IF t = <<>> THEN 0 ELSE Len(Head(t).s) + NumS(Tail(t))

\* The surface form of a token the backend returned.
Surface(tok) == IF builder = "nltk" THEN tok ELSE tok.text

CandTexts(cand) == [k \in 1..Len(cand) |-> Surface(cand[k])]

DocTexts(d) == Concat([x \in 1..Len(d) |-> CandTexts(d[x])])

\* All tokens the backend returned so far, in the order of the calls.
Returned == Concat([x \in 1..Len(calls) |-> DocTexts(calls[x].doc)])

\* The s elements of every paragraph carry the ids s{i}.1, ..., s{i}.n.
SentIdsContiguous(t) ==
    \A p \in 1..Len(t) : \A q \in 1..Len(t[p].s) : t[p].s[q].id = <<t[p].id, q>>

\* The w elements of every sentence carry the ids w{i}.{j}.1, ..., w{i}.{j}.m.
WordIdsContiguous(t) ==
    \A p \in 1..Len(t) : \A q \in 1..Len(t[p].s) :
        \A k \in 1..Len(t[p].s[q].w) :
            t[p].s[q].w[k].id = <<t[p].s[q].id[1], t[p].s[q].id[2], k>>

\* The last s element of the last paragraph of a tree.
LastSent(t) == t[Len(t)].s[Len(t[Len(t)].s)]

\* nlp_process is about to process candidate c + 1 of the current line.
NlpCandStep == pc = "sent" /\ builder = "nlp"

(***************************************************************************)
(* C1.  In the tree built by nlp_process the sentence elements of each     *)
(* paragraph i carry the ids s{i}.1, ..., s{i}.n in document order, also   *)
(* when the paragraph consists of several consecutive non-empty lines.     *)
(* Fails: j is set to 0 at every non-empty line.                           *)
(***************************************************************************)
C1_NlpSentenceIds == builder = "nlp" => SentIdsContiguous(text)

(***************************************************************************)
(* C2.  In the tree built by nltk_tokenize the sentence elements of each   *)
(* paragraph i carry the ids s{i}.1, ..., s{i}.n with no id repeated, in   *)
(* particular when one line is split into two or more sentences.           *)
(* Fails: j += 1 follows the loop over the sentences of a line.            *)
(***************************************************************************)
C2_NltkSentenceIds == builder = "nltk" => SentIdsContiguous(text)

(***************************************************************************)
(* C3.  In the tree built by nlp_process the word ids of every sentence    *)
(* element are w{i}.{j}.1, ..., w{i}.{j}.m, contiguous from 1 with no id   *)
(* repeated, including a sentence into which candidates were merged.       *)
(* Fails: k restarts at 1 for every candidate.                             *)
(***************************************************************************)
C3_NlpWordIds == builder = "nlp" => WordIdsContiguous(text)

(***************************************************************************)
(* C4.  Merge safeguard of nlp_process: a candidate opens a new sentence   *)
(* element, with j incremented by one, if and only if it is the first      *)
(* candidate of its line or the candidate before it did not have exactly   *)
(* one token; otherwise its tokens are appended to the open sentence       *)
(* element (the last of the current paragraph) and j is unchanged.         *)
(***************************************************************************)
C4_MergeSafeguard ==
    [][NlpCandStep =>
        LET opens == c = 0 \/ Len(doc[c]) # 1
            S     == text[Len(text)].s
            S2    == text'[Len(text)].s
            toks  == CandTexts(doc[c + 1])
        IN  /\ Len(text') = Len(text)
            /\ IF opens
               THEN /\ j' = j + 1
                    /\ NumS(text') = NumS(text) + 1
                    /\ S2 = Append(S, S2[Len(S2)])
                    /\ S2[Len(S2)].id = <<text[Len(text)].id, j'>>
                    /\ Texts(S2[Len(S2)].w) = toks
               ELSE /\ j' = j
                    /\ NumS(text') = NumS(text)
                    /\ Len(S2) = Len(S)
                    /\ SubSeq(S2, 1, Len(S) - 1) = SubSeq(S, 1, Len(S) - 1)
                    /\ S2[Len(S)].id = S[Len(S)].id
                    /\ S2[Len(S)].id[2] = j
                    /\ Texts(S2[Len(S)].w) = Texts(S[Len(S)].w) \o toks]_vars

\* Three candidates of one line ended in one sentence element: the second
\* and the third were merged over a run of two one-token candidates.
C4_Witness ==
    /\ builder = "nlp"
    /\ c = 3
    /\ Len(doc[1]) = 1
    /\ Len(doc[2]) = 1
    /\ Len(doc[3]) = 2
    /\ Len(text[Len(text)].s) = 1
    /\ Len(LastSent(text).w) = 4

(***************************************************************************)
(* C5.  Paragraph boundary overrides merge in nlp_process: the first       *)
(* candidate of the first non-empty line after a blank line opens the      *)
(* sentence s{i+1}.1 as the first sentence of the new paragraph i+1, also  *)
(* when the last candidate before the blank line had one token; and no     *)
(* candidate is ever appended to a paragraph other than the last one.      *)
(***************************************************************************)
C5_ParagraphBoundary ==
    [][NlpCandStep =>
        /\ Len(text') = Len(text)
        /\ \A p \in 1..(Len(text) - 1) : text'[p] = text[p]
        /\ (c = 0 /\ n >= 2 /\ IsBlankLine(file_in[n - 1])) =>
              LET P == text'[Len(text)] IN
              /\ Len(text) >= 2
              /\ P.id = text[Len(text) - 1].id + 1
              /\ Len(P.s) = 1
              /\ P.s[1].id = <<P.id, 1>>
              /\ Texts(P.s[1].w) = CandTexts(doc[1])]_vars

\* A line whose last candidate had one token, a blank line, and the first
\* candidate of the next line processed.
C5_Witness ==
    /\ builder = "nlp"
    /\ n = 3
    /\ c >= 1
    /\ IsBlankLine(file_in[2])
    /\ Len(calls) = 2
    /\ Len(calls[1].doc[Len(calls[1].doc)]) = 1
    /\ Len(text) = 2
    /\ Len(text[1].s) = 1
    /\ Len(text[1].s[1].w) = 1

(***************************************************************************)
(* C6.  The merge flag carries across consecutive non-empty lines of one   *)
(* paragraph in nlp_process: when the last candidate of a line has exactly *)
(* one token and the next line is non-empty, the first candidate of that   *)
(* next line is appended to the open sentence element and opens no new     *)
(* one.  Fails: start_new is set to True at every non-empty line.          *)
(***************************************************************************)
C6_MergeAcrossLines ==
    [][(/\ NlpCandStep
        /\ c = 0
        /\ n >= 2
        /\ ~IsBlankLine(file_in[n - 1])
        /\ Len(calls[Len(calls) - 1].doc[Len(calls[Len(calls) - 1].doc)]) = 1)
       => /\ NumS(text') = NumS(text)
          /\ Texts(LastSent(text').w)
                = Texts(LastSent(text).w) \o CandTexts(doc[1])]_vars

(***************************************************************************)
(* C7.  In both builders the paragraph elements carry the ids 1, 2, ..., n *)
(* in document order: contiguous from 1, strictly increasing, never reused.*)
(***************************************************************************)
C7_ParagraphIds ==
    builder # "none" => \A p \in 1..Len(text) : text[p].id = p

C7_Witness == pc = "done" /\ builder = "nltk" /\ Len(file_out) = 3

(***************************************************************************)
(* C8.  In both builders the first paragraph exists before any line is     *)
(* read and one further paragraph is started for every line that is empty  *)
(* after trimming whitespace, and for no other line: the written tree has  *)
(* exactly 1 + (number of blank lines) paragraphs.                         *)
(***************************************************************************)
C8_ParagraphCount ==
    builder # "none" =>
        /\ Len(text) = 1 + (n - NonBlank(SubSeq(file_in, 1, n)))
        /\ pc = "done" =>
              Len(file_out) = 1 + (Len(file_in) - NonBlank(file_in))

\* A file with an empty line, a whitespace-only line and a line of content.
C8_Witness ==
    /\ pc = "done"
    /\ builder = "nlp"
    /\ \E k \in 1..Len(file_in) : file_in[k] = <<"\n">>
    /\ \E k \in 1..Len(file_in) : file_in[k] = <<" ", "\n">>
    /\ \E k \in 1..Len(file_in) : ~IsBlankLine(file_in[k])
    /\ Len(file_out) = 3

(***************************************************************************)
(* C9.  No token is discarded or reordered by the builders: once the       *)
(* candidates of a line are processed, the surface forms of the tree in    *)
(* document order are the tokens of all candidates returned so far, in     *)
(* input order, merged or not; the written tree holds them all.            *)
(***************************************************************************)
C9_NoTokenLost ==
    (builder # "none" /\ pc \in {"loop", "done"}) =>
        /\ TreeTexts(text) = Returned
        /\ pc = "done" => TreeTexts(file_out) = Returned

\* A written tree of nlp_process in which candidates were merged.
C9_Witness ==
    /\ pc = "done"
    /\ builder = "nlp"
    /\ Len(calls) = 2
    /\ Len(calls[1].doc) + Len(calls[2].doc) > NumS(file_out)
    /\ TreeTexts(file_out) = <<"b", "a", "a", "b">>

(***************************************************************************)
(* C10.  Dispatch validation.  As claimed: for each of Uplug, NLTK, Spacy  *)
(* and Stanza, a language the backend does not support ends in an          *)
(* UnsupportedLanguage ClickException, raised before the backend is        *)
(* invoked on any line and before any output file is written.              *)
(***************************************************************************)
Supports(t, l) ==
    CASE t = UPLUG  -> l \in UplugLanguages
      [] t = NLTK   -> l \in DOMAIN NLTK_LANGUAGES
      [] t = SPACY  -> l \in DOMAIN SPACY_MODELS
      [] t = STANZA -> l \in StanzaLanguages

Rejected ==
    /\ pc = "error"
    /\ error = "UnsupportedLanguage"
    /\ builder = "none"
    /\ calls = <<>>
    /\ subprocess = "none"
    /\ file_out = NoFile
    /\ writes = 0

C10_AllBackendsValidate ==
    (/\ tokenizer \in {UPLUG, NLTK, SPACY, STANZA}
     /\ ~Supports(tokenizer, language)
     /\ pc # "call") => Rejected

\* C10 as amended: NLTK, Spacy and Stanza reject an unsupported language
\* before any line is processed and any file written; Uplug validates
\* nothing: for every language it runs the command and returns normally.
C10_InProcessBackendsValidate ==
    /\ (/\ tokenizer \in {NLTK, SPACY, STANZA}
        /\ ~Supports(tokenizer, language)
        /\ pc # "call") => Rejected
    /\ (tokenizer = UPLUG /\ pc # "call") =>
          (pc = "done" /\ error = "none" /\ subprocess \in ExitStatus)

C10_Witness ==
    /\ tokenizer = SPACY
    /\ language = "sv"
    /\ pc = "error"
    /\ error = "UnsupportedLanguage"

(***************************************************************************)
(* C11.  No partial output from the in-process builders: the output file   *)
(* is written at most once per call and only after every line was          *)
(* consumed; when the backend fails on a line, or a resource or language   *)
(* error is raised, the call ends in error with no output file written,    *)
(* and no builder is started a second time.                                *)
(* Fails: the try block of stanza_tokenize holds the call of nlp_process,  *)
(* so an ImportError of the backend on a line starts nlp_process again.    *)
(***************************************************************************)
C11_NoPartialOutput ==
    tokenizer \in {NLTK, SPACY, STANZA} =>
        /\ writes <= 1
        /\ file_out # NoFile => (pc = "done" /\ n = Len(file_in))
        /\ error # "none" => (pc = "error" /\ file_out = NoFile /\ writes = 0)
        /\ \A x \in 1..Len(calls) : calls[x].doc = <<>> => pc = "error"
        /\ runs <= 1

(***************************************************************************)
(* C12.  Selecting TREETAGGER is a no-op: for any language and input file  *)
(* no backend is invoked, no tree is built, no output file is written and  *)
(* no error is raised.                                                     *)
(***************************************************************************)
C12_TreetaggerNoOp ==
    tokenizer = TREETAGGER =>
        /\ pc \in {"call", "done"}
        /\ error = "none"
        /\ builder = "none"
        /\ runs = 0
        /\ text = <<>>
        /\ calls = <<>>
        /\ subprocess = "none"
        /\ file_out = NoFile
        /\ writes = 0

C12_Witness ==
    tokenizer = TREETAGGER /\ pc = "done" /\ language = "xx" /\ Len(file_in) = 3

(***************************************************************************)
(* nlp_process as a function of the lines and of the candidates the        *)
(* backend returns for the non-empty ones (ds, one entry per non-empty     *)
(* line): the same statements as nlp_line and nlp_sent, folded over the    *)
(* file.                                                                   *)
(***************************************************************************)
RECURSIVE NlpSents(_, _)
NlpSents(st, d) ==
    IF d = <<>> THEN st
    ELSE LET sent  == Head(d)
             j1    == IF st.start_new THEN st.j + 1 ELSE st.j
             text1 == IF st.start_new
                      THEN AddS(st.text, st.paragraph, st.i, j1) ELSE st.text
             ptr   == IF st.start_new
                      THEN LastS(text1, st.paragraph) ELSE st.sentence
         IN NlpSents([st EXCEPT !.j = j1,
                                !.sentence = ptr,
                                !.text = AddW(text1, ptr,
                                              NlpWords(st.i, j1, sent, FALSE)),
                                !.start_new = StartNew(sent)],
                     Tail(d))

RECURSIVE NlpLines(_, _, _)
NlpLines(st, ls, ds) ==
    IF ls = <<>> THEN st.text
    ELSE IF strip(Head(ls)) # <<>>
         THEN NlpLines(NlpSents([st EXCEPT !.start_new = TRUE, !.j = 0], Head(ds)),
                       Tail(ls), Tail(ds))
         ELSE LET text1 == AddP(st.text, NextI(st.i)) IN
              NlpLines([st EXCEPT !.i = NextI(st.i), !.text = text1,
                                  !.paragraph = LastP(text1)],
                       Tail(ls), ds)

NlpBuild(ls, ds) ==
    NlpLines([text |-> AddP(<<>>, 1), i |-> 1, j |-> 0, start_new |-> FALSE,
              paragraph |-> 1, sentence |-> <<0, 0>>], ls, ds)

\* The fold and the actions build the same tree.
NlpBuildAgrees ==
    (builder = "nlp" /\ pc = "done") =>
        file_out = NlpBuild(file_in, [x \in 1..Len(calls) |-> calls[x].doc])

\* The candidates of sent_tokenize/word_tokenize as token records.
AsTokens(d) == [x \in 1..Len(d) |-> [k \in 1..Len(d[x]) |-> Token(d[x][k])]]

\* A tree without the tree and lem attributes of its words.
Shape(t) ==
    [p \in 1..Len(t) |->
        [id |-> t[p].id,
         s  |-> [q \in 1..Len(t[p].s) |->
                    [id |-> t[p].s[q].id,
                     w  |-> [k \in 1..Len(t[p].s[q].w) |->
                                [id   |-> t[p].s[q].w[k].id,
                                 text |-> t[p].s[q].w[k].text]]]]]]

(***************************************************************************)
(* C13.  Backend-independent structure: for the same lines and the same    *)
(* candidates per line, nltk_tokenize and nlp_process give trees with the  *)
(* same paragraph, sentence and word ids and the same surface texts.       *)
(* Fails: nltk_tokenize numbers sentences per line and never merges.       *)
(***************************************************************************)
C13_SameStructure ==
    (builder = "nltk" /\ pc = "done") =>
        Shape(file_out)
            = Shape(NlpBuild(file_in,
                             [x \in 1..Len(calls) |-> AsTokens(calls[x].doc)]))

(***************************************************************************)
(* C14.  In both builders the backend is invoked exactly once for every    *)
(* line that is non-empty after trimming, in input order, and never for a  *)
(* blank or whitespace-only line: the invocations are those of the         *)
(* non-blank lines read so far, and at the end their number is the number  *)
(* of non-empty lines.                                                     *)
(***************************************************************************)
\* The indices of the non-blank lines among the first m lines, ascending.
RECURSIVE NonBlankIdx(_)
NonBlankIdx(m) ==
    IF m = 0 THEN <<>>
    ELSE IF IsBlankLine(file_in[m]) THEN NonBlankIdx(m - 1)
         ELSE Append(NonBlankIdx(m - 1), m)

C14_OneCallPerLine ==
    builder # "none" =>
        /\ [x \in 1..Len(calls) |-> calls[x].at] = NonBlankIdx(n)
        /\ \A x \in 1..Len(calls) : calls[x].line # <<>>
        /\ pc = "done" => Len(calls) = NonBlank(file_in)

C14_Witness ==
    /\ pc = "done"
    /\ builder = "nltk"
    /\ Len(file_in) = 3
    /\ file_in[2] = <<" ", "\n">>
    /\ Len(calls) = 2
    /\ calls[2].at = 3

(***************************************************************************)
(* C15.  Write-once tree: while a builder runs, no step changes a          *)
(* paragraph other than the last one, nor a sentence element other than    *)
(* the last one of the last paragraph; that sentence is only extended,     *)
(* and only as long as no later sentence or paragraph exists.              *)
(***************************************************************************)
IsPrefix(a, b) == Len(a) <= Len(b) /\ SubSeq(b, 1, Len(a)) = a

C15_WriteOnce ==
    [][(builder # "none" /\ runs' = runs) =>
        LET L  == Len(text)
            P  == text[L]
            P2 == text'[L]
            K  == Len(P.s)
        IN  /\ Len(text') >= L
            /\ \A p \in 1..(L - 1) : text'[p] = text[p]
            /\ P2.id = P.id
            /\ Len(P2.s) >= K
            /\ \A q \in 1..(K - 1) : P2.s[q] = P.s[q]
            /\ K >= 1 =>
                  /\ P2.s[K].id = P.s[K].id
                  /\ IsPrefix(P.s[K].w, P2.s[K].w)
                  /\ (Len(text') > L \/ Len(P2.s) > K) => P2.s[K] = P.s[K]
            /\ Len(text') > L => P2 = P]_vars

\* Two paragraphs, the second with two sentences, after a first with one.
C15_Witness ==
    /\ pc = "done"
    /\ builder = "nlp"
    /\ Len(text) = 2
    /\ Len(text[1].s) = 1
    /\ Len(text[2].s) = 2
    /\ Len(text[2].s[1].w) = 2
    /\ Len(text[2].s[2].w) = 1

(***************************************************************************)
(* C16.  Stanza fallback: when the combined spaCy+Stanza path fails with   *)
(* ImportError, stanza_tokenize runs nlp_process from the start with the   *)
(* native pipeline (stanza_unique) and the error is not propagated; the    *)
(* output file is written at most once in every execution; a language      *)
(* stanza.download rejects ends in a ClickException with no pipeline run   *)
(* and no output written.                                                  *)
(***************************************************************************)
C16_State ==
    tokenizer = STANZA =>
        /\ writes <= 1
        /\ (~Supports(STANZA, language) /\ pc # "call") =>
              (Rejected /\ runs = 0 /\ caught = "none")
        /\ error = "ImportError" => stanza_unique
        /\ caught = "ImportError" => (builder = "nlp" /\ stanza_unique)

C16_Step ==
    (tokenizer = STANZA /\ caught = "none" /\ caught' = "ImportError") =>
        /\ pc' = "loop"
        /\ error' = "none"
        /\ builder' = "nlp"
        /\ stanza_unique'
        /\ n' = 0
        /\ calls' = <<>>
        /\ text' = <<NewP(1)>>
        /\ file_out' = NoFile

C16_StanzaFallback == [](C16_State) /\ [][C16_Step]_vars

\* The combined pipeline failed on a line with ImportError; the
\* native pipeline then processed both lines and the tree was written once.
C16_Witness ==
    /\ tokenizer = STANZA
    /\ pc = "done"
    /\ runs = 2
    /\ stanza_unique
    /\ Len(calls) = 2
    /\ writes = 1
    /\ file_out = text

(***************************************************************************)
(* C17.  ExternalToolFailure is never surfaced: with the Uplug backend     *)
(* tokenize_single returns normally whatever the exit status of the        *)
(* command, raises no error and never starts a builder; a failure of the   *)
(* tool shows only in the output file.                                     *)
(***************************************************************************)
C17_UplugSilent ==
    (tokenizer = UPLUG /\ pc # "call") =>
        /\ pc = "done"
        /\ error = "none"
        /\ builder = "none"
        /\ runs = 0
        /\ text = <<>>
        /\ calls = <<>>
        /\ subprocess \in ExitStatus
        /\ subprocess # 0 => file_out = "empty"

C17_Witness ==
    tokenizer = UPLUG /\ pc = "done" /\ subprocess = 1 /\ error = "none"

(***************************************************************************)
(* C18.  Identifier/ownership consistency: in every tree of both builders  *)
(* each word with id w{a}.{b}.{k} is a child of a sentence with id         *)
(* s{a}.{b}, and each sentence with id s{a}.{b} a child of the paragraph   *)
(* with id a.                                                              *)
(***************************************************************************)
C18_Ownership ==
    builder # "none" =>
        \A p \in 1..Len(text) : \A q \in 1..Len(text[p].s) :
            /\ text[p].s[q].id[1] = text[p].id
            /\ \A k \in 1..Len(text[p].s[q].w) :
                  /\ text[p].s[q].w[k].id[1] = text[p].s[q].id[1]
                  /\ text[p].s[q].w[k].id[2] = text[p].s[q].id[2]

\* A written tree with merged candidates, a blank line and a second paragraph.
C18_Witness ==
    /\ pc = "done"
    /\ builder = "nlp"
    /\ Len(file_out) = 2
    /\ Len(file_out[1].s) = 1
    /\ Len(file_out[1].s[1].w) = 3
    /\ Len(file_out[2].s) = 1

(***************************************************************************)
(* C19.  Unknown backend value: with a tokenizer that is none of the five  *)
(* named backends tokenize_single returns normally: no error, no adapter,  *)
(* no output file.                                                         *)
(***************************************************************************)
C19_UnknownBackend ==
    tokenizer \notin {UPLUG, NLTK, SPACY, STANZA, TREETAGGER} =>
        /\ pc \in {"call", "done"}
        /\ error = "none"
        /\ builder = "none"
        /\ runs = 0
        /\ calls = <<>>
        /\ subprocess = "none"
        /\ file_out = NoFile
        /\ writes = 0

C19_Witness == tokenizer = UNKNOWN /\ pc = "done" /\ language = "en"

====
